---- MODULE Spec2Model ----
(***************************************************************************)
(* TGAuth: the artifact and session lifecycle classes.                     *)
(*                                                                         *)
(*   DeeplinkAuth   src/Src/Auth/DeeplinkAuth.ts  lines 24-104             *)
(*   WidgetAuth     src/Src/Auth/DeeplinkAuth.ts  lines 145-351            *)
(*   CodeAuth       src/unnamed/part_003          lines 13-85              *)
(*   TwoFAAuth      src/Src/Auth/TwoFAAuth.ts     lines 49-349             *)
(*   SessionManager src/unnamed/part_002          lines 28-172             *)
(*                                                                         *)
(* The classes share no state, so one object is modelled at a time: `kind` *)
(* says which class the object under study is an instance of, and the      *)
(* variables of the other classes stay at their initial value.             *)
(*                                                                         *)
(* The runtime is the single-threaded JavaScript event loop.  A call of a  *)
(* synchronous method (handleAuth, verify2FA) is issued as a task          *)
(* (Issue...) that joins `queue`, and the task then runs from its first    *)
(* statement to its return or throw in one step: the method bodies contain *)
(* no await.  Several tasks can be queued at the same time and the order   *)
(* in which they run is free.  `ret` is the outcome of the call that ran   *)
(* last.                                                                   *)
(***************************************************************************)
EXTENDS Integers, Sequences, FiniteSets, Bags, TLC

-----------------------------------------------------------------------------
(* Bounds of the model *)

MaxArtifactTime == 1  \* Date.now() ranges over 0..MaxArtifactTime for DeeplinkAuth, CodeAuth
MaxCalls == 2         \* calls that can be queued at the same time
RandomDen == 1        \* Math.random() ranges over 0/RandomDen .. (RandomDen-1)/RandomDen
NumTokens == 1        \* distinct values randomBytes(16) produces in a run
MaxTime == 2          \* Date.now() ranges over 0..MaxTime for TwoFAAuth, SessionManager
TwoFARandomDen == 2   \* Math.random() granularity in TwoFAAuth.generateCode
MaxCodeLength == 10   \* lengths 1..MaxCodeLength given to generateCode on its own
CodeRandomDen == 16   \* Math.random() granularity for the generators on their own
MaxSeconds == 2        \* createTelegramAuth: seconds that pass
NumSubjects == 1      \* user ids that start and verify 2FA
NumSessionIds == 1    \* distinct values tokenGenerator() returns

-----------------------------------------------------------------------------
(* Values *)

\* absent optional field / undefined
Undefined == "undefined"

\* the identities (AuthResult objects) callers pass in
UserData == {"u1", "u2"}

\* randomBytes(16).toString('hex'): 128-bit values, as abstract tokens
Tokens == {<<"tok", i>> : i \in 1..NumTokens}

\* a token no generateDeeplink call has returned
UnknownToken == <<"tok", 0>>

\* the delivery channels of sendResult, and the saveHandler hook
Channels == {"callback", "rest", "websocket"}
Hooks == Channels \cup {"save"}

\* the constructor options that sendResult reads: the transport array, and
\* whether saveHandler, onAuth, restEndpoint and wsServer are supplied
AuthTransportOptions ==
  [transport : SUBSET Channels,
   saveHandler : BOOLEAN, onAuth : BOOLEAN,
   restEndpoint : BOOLEAN, wsServer : BOOLEAN]

\* the configurations the objects are constructed with here: no channel
\* enabled (an empty or absent transport array), the saveHandler and every
\* handler supplied; every channel and the saveHandler; the callback alone
\* without saveHandler; websocket and rest with saveHandler, the onAuth
\* handler supplied but its channel not enabled
OptionSets ==
  { [transport |-> {}, saveHandler |-> TRUE, onAuth |-> TRUE,
     restEndpoint |-> TRUE, wsServer |-> TRUE],
    [transport |-> Channels, saveHandler |-> TRUE, onAuth |-> TRUE,
     restEndpoint |-> TRUE, wsServer |-> TRUE],
    [transport |-> {"callback"}, saveHandler |-> FALSE, onAuth |-> TRUE,
     restEndpoint |-> FALSE, wsServer |-> FALSE],
    [transport |-> {"websocket", "rest"}, saveHandler |-> TRUE, onAuth |-> TRUE,
     restEndpoint |-> TRUE, wsServer |-> TRUE] }

\* Map.set(k, v)
MapSet(m, k, v) == [x \in (DOMAIN m) \cup {k} |-> IF x = k THEN v ELSE m[x]]

\* Map.delete(k)
MapDelete(m, k) == [x \in (DOMAIN m) \ {k} |-> m[x]]

EmptyMap == [x \in {} |-> Undefined]

VARIABLES
  kind,        \* the class of the object under study
  integration, \* TelegrafIntegration / NestJSIntegration: this.options
  opts,        \* this.options
  now,         \* Date.now()
  sessions,    \* DeeplinkAuth.sessions / CodeAuth.sessions : Map<string, session>
  queue,       \* the calls issued and not yet run (a bag)
  ret,         \* the outcome of the call that ran last
  redeemed,    \* history: the values for which a handleAuth call returned true
  tfOpts,      \* TwoFAAuth: the codeLifetime, codeLength, maxAttempts options supplied
  tfSessions,  \* TwoFAAuth.sessions : Map<string, TwoFASession>
  attempts,    \* TwoFAAuth.attempts : Map<string, number>
  wrongTries,  \* history: per subject, the verify2FA calls with a wrong code
               \* made against its challenge since start2FA (counted up to maxAttempts)
  smLifetime,  \* SessionManager: the sessionLifetime option supplied
  smSessions,  \* SessionManager.sessions : Map<string, Session>
  load,        \* the promise of persistentStore.load() the constructor started
  snapshot,    \* the Map that promise resolves with
  gone,        \* history: the ids getSession removed as expired, until the id is
               \* created again or the collection is replaced
  wOpts        \* WidgetAuth: the botToken and validateSignature options supplied

artifactVars == <<sessions, queue, redeemed>>
twoFAVars == <<tfOpts, tfSessions, attempts, wrongTries>>
sessionVars == <<smLifetime, smSessions, load, snapshot, gone>>

vars == <<kind, integration, opts, now, ret, artifactVars, twoFAVars, sessionVars, wOpts>>

-----------------------------------------------------------------------------
(* The calls in flight *)

\* a queued call handleAuth(value, userData), userData in `arg`; rivalWon
\* records that another call for the same value, queued at the same time as
\* this one, returned true
Request(v, u) == [op |-> "handleAuth", value |-> v, arg |-> u, rivalWon |-> FALSE]

\* what a call did with sendResult: how often it ran, with which identity,
\* the hooks it invoked in order, and whether an exception left it
NoDispatch == [ran |-> 0, payload |-> Undefined, invoked |-> <<>>, threw |-> FALSE,
               nested |-> "none"]

Dispatched(d, payload) ==
  [ran |-> 1, payload |-> payload, invoked |-> d.invoked, threw |-> d.threw,
   nested |-> "none"]

\* the dispatch d, one of whose hooks called the method again for the same
\* value while sendResult was running (reenter), the guard of that nested
\* call refusing or not: `nested` is what the nested call returned ("none"
\* when no hook ran or none re-entered)
Reentered(d, reenter, refused) ==
  [d EXCEPT !.nested = IF reenter /\ Len(d.invoked) > 0
                       THEN (IF refused THEN "false" ELSE "true")
                       ELSE "none"]

NoRet == [op |-> "none", value |-> Undefined, arg |-> Undefined,
          result |-> Undefined, rivalWon |-> FALSE, dispatch |-> NoDispatch]

\* the outcome of the queued call r
Outcome(r, res, d) ==
  [op |-> r.op, value |-> r.value, arg |-> r.arg,
   result |-> res, rivalWon |-> r.rivalWon, dispatch |-> d]

\* the bag b, every call for value v in it marked as having lost to a rival
\* (won = TRUE) or as racing for a new artifact (won = FALSE)
MarkRivals(b, v, won) ==
  LET mark(r) == IF r.value = v THEN [r EXCEPT !.rivalWon = won] ELSE r
      other(x) == [x EXCEPT !.rivalWon = ~x.rivalWon]
  IN  [x \in {mark(r) : r \in DOMAIN b} |->
         IF x.value = v THEN CopiesIn(x, b) + CopiesIn(other(x), b) ELSE b[x]]

\* a caller issues handleAuth(v, u)
Issue(v, u) ==
  /\ BagCardinality(queue) < MaxCalls
  /\ queue' = queue (+) SetToBag({Request(v, u)})

-----------------------------------------------------------------------------
(* Number.prototype.toString for non-negative integers: the decimal digits *)

RECURSIVE DecimalString(_)
DecimalString(n) == IF n < 10 THEN <<n>> ELSE DecimalString(n \div 10) \o <<n % 10>>

\* Math.floor(100000 + Math.random() * 900000).toString(), with
\* Math.random() = r / den
CodeAuth_codeOf(r, den) == DecimalString((100000 * den + r * 900000) \div den)

\* the code generateCode draws in the model of CodeAuth, with
\* Math.random() = r / RandomDen
CodeAuth_code(r) == CodeAuth_codeOf(r, RandomDen)

Codes == {CodeAuth_code(r) : r \in 0..(RandomDen - 1)}

\* a string of six digits that generateCode never returns
UnknownCode == <<0, 0, 0, 0, 0, 0>>

-----------------------------------------------------------------------------
(* sendResult of DeeplinkAuth and of CodeAuth (the two bodies are the same *)
(* statement for statement).  `fails` is the set of hooks that throw when  *)
(* they are invoked.  No try/catch: the first throw ends sendResult.  The  *)
(* 'rest' branch is empty (the fetch is commented out).  The result is the *)
(* sequence of hooks invoked and whether an exception left sendResult.     *)

\* the sets of throwing hooks tried with DeeplinkAuth and CodeAuth: none, or
\* one (the first throw ends sendResult, so a second throwing hook would
\* never be reached)
FailureSets == {{}} \cup {{h} : h \in Hooks}

Deliver(acc, enabled, hook, fails) ==
  IF acc.threw \/ ~enabled THEN acc
  ELSE [invoked |-> Append(acc.invoked, hook), threw |-> hook \in fails]

\* onAuth invoked whenever it is supplied, whatever the transport array holds
DeeplinkAuth_sendResult_anyCallback(o, fails) ==
  LET s0 == [invoked |-> <<>>, threw |-> FALSE]
      s1 == Deliver(s0, o.saveHandler, "save", fails)
      s2 == Deliver(s1, o.onAuth, "callback", fails)
      s3 == s2
      s4 == Deliver(s3, "websocket" \in o.transport /\ o.wsServer, "websocket", fails)
  IN  s4

\* DeeplinkAuth.sendResult(userData)
DeeplinkAuth_sendResult(o, fails) ==
  LET s0 == [invoked |-> <<>>, threw |-> FALSE]
      s1 == Deliver(s0, o.saveHandler, "save", fails)
      s2 == Deliver(s1, "callback" \in o.transport /\ o.onAuth, "callback", fails)
      s3 == s2
      s4 == Deliver(s3, "websocket" \in o.transport /\ o.wsServer, "websocket", fails)
  IN  s4

CodeAuth_sendResult(o, fails) ==
  LET s0 == [invoked |-> <<>>, threw |-> FALSE]
      s1 == Deliver(s0, o.saveHandler, "save", fails)
      s2 == Deliver(s1, "callback" \in o.transport /\ o.onAuth, "callback", fails)
      s3 == s2
      s4 == Deliver(s3, "websocket" \in o.transport /\ o.wsServer, "websocket", fails)
  IN  s4

-----------------------------------------------------------------------------
(* DeeplinkAuth *)

\* the guard without its test of `used`
DeeplinkAuth_rejects_noUsedTest(m, token) == token \notin DOMAIN m

\* `if (!session || session.used) return false`: the guard of handleAuth
DeeplinkAuth_rejects(m, token) == token \notin DOMAIN m \/ m[token].used

\* the guard written `if (session.used)`: reading `used` of undefined throws
DeeplinkAuth_refusal_probing(m, r) ==
  Outcome(r, IF r.value \in DOMAIN m THEN "false" ELSE "threw", NoDispatch)

\* `return false` from the guard of handleAuth, the store being m
DeeplinkAuth_refusal(m, r) == Outcome(r, "false", NoDispatch)

\* the outcome of invalidateDeeplink(value) / invalidateCode(value): no
\* return value, and no call of sendResult
Invalidated(value) == [NoRet EXCEPT !.op = "invalidate", !.value = value]

\* sendResult called before the write of used
DeeplinkAuth_atDispatch_unwritten(before, after) == before

\* this.sessions as sendResult and the hooks it invokes find it, handleAuth
\* having changed it from `before` to `after`: `session.used = true` and
\* `this.sessions.set` precede `this.sendResult(userData)`
DeeplinkAuth_atDispatch(before, after) == after

\* generateDeeplink(): the token is a new 128-bit random value, registered
\* unused.  Two calls never return the same token.
generateDeeplink ==
  /\ kind = "deeplink"
  /\ \E token \in Tokens \ DOMAIN sessions :
       sessions' = MapSet(sessions, token,
                     [createdAt |-> now, used |-> FALSE, userData |-> Undefined])
  /\ UNCHANGED <<kind, integration, opts, now, queue, ret, redeemed, twoFAVars, sessionVars, wOpts>>

\* a caller issues handleAuth(token, userData)
IssueDeeplinkHandleAuth ==
  /\ kind = "deeplink"
  /\ \E token \in Tokens \cup {UnknownToken}, u \in UserData : Issue(token, u)
  /\ UNCHANGED <<kind, integration, opts, now, sessions, ret, redeemed, twoFAVars, sessionVars, wOpts>>

\* handleAuth(token, userData), from its first statement to its return
DeeplinkAuth_handleAuth ==
  /\ kind = "deeplink"
  /\ \E r \in DOMAIN queue, fails \in FailureSets, reenter \in BOOLEAN :
       LET token == r.value
           rest == queue (-) SetToBag({r})
           d == DeeplinkAuth_sendResult(opts, fails)
           written == [sessions EXCEPT ![token] =
                         [@ EXCEPT !.used = TRUE, !.userData = r.arg]]
           seen == DeeplinkAuth_atDispatch(sessions, written)
       IN  IF DeeplinkAuth_rejects(sessions, token)
           THEN /\ ret' = DeeplinkAuth_refusal(sessions, r)
                /\ queue' = rest
                /\ UNCHANGED <<sessions, redeemed>>
           ELSE /\ sessions' = written
                /\ ret' = Outcome(r, IF d.threw THEN "threw" ELSE "true",
                                  Reentered(Dispatched(d, r.arg), reenter,
                                            DeeplinkAuth_rejects(seen, token)))
                /\ queue' = IF d.threw THEN rest ELSE MarkRivals(rest, token, TRUE)
                /\ redeemed' = IF d.threw THEN redeemed ELSE redeemed \cup {token}
  /\ UNCHANGED <<kind, integration, opts, now, twoFAVars, sessionVars, wOpts>>

\* invalidateDeeplink(token)
invalidateDeeplink ==
  /\ kind = "deeplink"
  /\ \E token \in Tokens \cup {UnknownToken} :
       /\ sessions' = IF token \in DOMAIN sessions
                      THEN [sessions EXCEPT ![token] = [@ EXCEPT !.used = TRUE]]
                      ELSE sessions
       /\ ret' = Invalidated(token)
  /\ UNCHANGED <<kind, integration, opts, now, queue, redeemed, twoFAVars, sessionVars, wOpts>>

-----------------------------------------------------------------------------
(* CodeAuth *)

\* the guard reading `used` as it was when the artifact was registered
CodeAuth_rejects_staleUsed(m, code) == code \notin DOMAIN m

\* `if (!session || session.used) return false`: the guard of handleAuth
CodeAuth_rejects(m, code) == code \notin DOMAIN m \/ m[code].used

\* what generateCode() stores under the code it drew at time t
CodeAuth_register(m, code, t) ==
  MapSet(m, code, [createdAt |-> t, used |-> FALSE, userData |-> Undefined])

\* this.sessions as sendResult and its hooks find it: the write of used
\* precedes `this.sendResult(userData)`
CodeAuth_atDispatch(before, after) == after

\* generateCode(): a six-digit code from Math.random(), registered unused
\* whether or not the same code is registered already.  The calls queued for
\* the code now race for the new artifact.
generateCode ==
  /\ kind = "code"
  /\ \E r \in 0..(RandomDen - 1) :
       /\ sessions' = CodeAuth_register(sessions, CodeAuth_code(r), now)
       /\ queue' = MarkRivals(queue, CodeAuth_code(r), FALSE)
  /\ UNCHANGED <<kind, integration, opts, now, ret, redeemed, twoFAVars, sessionVars, wOpts>>

\* a caller issues handleAuth(code, userData)
IssueCodeHandleAuth ==
  /\ kind = "code"
  /\ \E code \in Codes \cup {UnknownCode}, u \in UserData : Issue(code, u)
  /\ UNCHANGED <<kind, integration, opts, now, sessions, ret, redeemed, twoFAVars, sessionVars, wOpts>>

\* handleAuth(code, userData), from its first statement to its return
CodeAuth_handleAuth ==
  /\ kind = "code"
  /\ \E r \in DOMAIN queue, fails \in FailureSets, reenter \in BOOLEAN :
       LET code == r.value
           rest == queue (-) SetToBag({r})
           d == CodeAuth_sendResult(opts, fails)
           written == [sessions EXCEPT ![code] =
                         [@ EXCEPT !.used = TRUE, !.userData = r.arg]]
           seen == CodeAuth_atDispatch(sessions, written)
       IN  IF CodeAuth_rejects(sessions, code)
           THEN /\ ret' = Outcome(r, "false", NoDispatch)
                /\ queue' = rest
                /\ UNCHANGED <<sessions, redeemed>>
           ELSE /\ sessions' = written
                /\ ret' = Outcome(r, IF d.threw THEN "threw" ELSE "true",
                                  Reentered(Dispatched(d, r.arg), reenter,
                                            CodeAuth_rejects(seen, code)))
                /\ queue' = IF d.threw THEN rest ELSE MarkRivals(rest, code, TRUE)
                /\ redeemed' = IF d.threw THEN redeemed ELSE redeemed \cup {code}
  /\ UNCHANGED <<kind, integration, opts, now, twoFAVars, sessionVars, wOpts>>

\* invalidateCode(code)
invalidateCode ==
  /\ kind = "code"
  /\ \E code \in Codes \cup {UnknownCode} :
       /\ sessions' = IF code \in DOMAIN sessions
                      THEN [sessions EXCEPT ![code] = [@ EXCEPT !.used = TRUE]]
                      ELSE sessions
       /\ ret' = Invalidated(code)
  /\ UNCHANGED <<kind, integration, opts, now, queue, redeemed, twoFAVars, sessionVars, wOpts>>

-----------------------------------------------------------------------------
(* TwoFAAuth *)

\* the defaults of the constructor
DefaultCodeLifetime == 1000 * 60 * 5
DefaultCodeLength == 6
DefaultMaxAttempts == 3

\* `options.x || default`: an option that is not supplied, or is 0, is
\* written 0 here
OrDefault(x, default) == IF x = 0 THEN default ELSE x

\* this.options after the constructor
TwoFAAuth_options(o) ==
  [codeLifetime |-> OrDefault(o.codeLifetime, DefaultCodeLifetime),
   codeLength |-> OrDefault(o.codeLength, DefaultCodeLength),
   maxAttempts |-> OrDefault(o.maxAttempts, DefaultMaxAttempts)]

\* the options the objects are constructed with here
TwoFAOptionSets ==
  { [codeLifetime |-> 0, codeLength |-> 0, maxAttempts |-> 0],
    [codeLifetime |-> 1, codeLength |-> 1, maxAttempts |-> 1],
    [codeLifetime |-> 1, codeLength |-> 1, maxAttempts |-> 2] }

\* the user ids; sessionKey = `${userId}` is the id itself
Subjects == {<<"user", i>> : i \in 1..NumSubjects}

RECURSIVE Pow10(_)
Pow10(n) == IF n = 0 THEN 1 ELSE 10 * Pow10(n - 1)

\* Number.prototype.toString(16) of a byte, two digits (Buffer.toString('hex'))
HexByte(b) == <<b \div 16, b % 16>>

RECURSIVE HexString(_, _)
HexString(b, n) == IF n = 0 THEN <<>> ELSE HexByte(b) \o HexString(b, n - 1)

\* the longest code that generateCode makes as a number
NumericCodeLimit == 8

\* the random source scaled by one more than the size of the range
TwoFAAuth_generateCodeOf_wideRange(length, r, den) ==
  IF length <= NumericCodeLimit
  THEN LET min == Pow10(length - 1)
           max == Pow10(length) - 1
       IN  DecimalString((min * den + r * (max - min + 2)) \div den)
  ELSE SubSeq(HexString(((r + 1) * 256) \div den - 1, (length + 1) \div 2),
              1, length)

\* generateCode(length), with Math.random() = r / den; for length > 8 the
\* bytes of randomBytes are all the largest byte of the r-th of den equal
\* parts of 0..255
TwoFAAuth_generateCodeOf(length, r, den) ==
  IF length <= NumericCodeLimit
  THEN LET min == Pow10(length - 1)
           max == Pow10(length) - 1
       IN  DecimalString((min * den + r * (max - min + 1)) \div den)
  ELSE SubSeq(HexString(((r + 1) * 256) \div den - 1, (length + 1) \div 2),
              1, length)

\* the code start2FA draws in the model of TwoFAAuth
TwoFAAuth_generateCode(length, r) == TwoFAAuth_generateCodeOf(length, r, TwoFARandomDen)

\* the codes a caller may try: the codes start2FA can return, and a string
\* of zeros, which it never returns
TwoFACodes(length) ==
  {TwoFAAuth_generateCode(length, r) : r \in 0..(TwoFARandomDen - 1)}
    \cup {[i \in 1..length |-> 0]}

\* sendResult of TwoFAAuth: every hook is invoked inside its own try/catch
\* (the fetch promise has a catch handler), so nothing leaves sendResult
TwoFAAuth_sendResult(o, fails) ==
  LET hooks == <<[on |-> "callback" \in o.transport /\ o.onAuth, hook |-> "callback"],
                 [on |-> "rest" \in o.transport /\ o.restEndpoint, hook |-> "rest"],
                 [on |-> "websocket" \in o.transport /\ o.wsServer, hook |-> "websocket"],
                 [on |-> o.saveHandler, hook |-> "save"]>>
      enabled == SelectSeq(hooks, LAMBDA h : h.on)
  IN  [invoked |-> [i \in 1..Len(enabled) |-> enabled[i].hook], threw |-> FALSE]

\* the expiry test comparing with the creation time
TwoFAAuth_expired_vsCreatedAt(t, session) == t < session.createdAt

\* `Date.now() > session.expiresAt`
TwoFAAuth_expired(t, session) == t > session.expiresAt

\* the attempt test off by one
TwoFAAuth_exhausted_offByOne(n, max) == n > max

\* `attempts >= this.options.maxAttempts`
TwoFAAuth_exhausted(n, max) == n >= max

\* the test of `used` reading the verified flag of a fresh challenge
TwoFAAuth_used_never(session) == session.verified /\ ~session.used

\* `session.used`
TwoFAAuth_used(session) == session.used

\* `this.attempts.get(sessionKey) || 0`
TwoFAAuth_attempts(m, key) == IF key \in DOMAIN m THEN m[key] ELSE 0

\* the counter raised by two
TwoFAAuth_counted_twice(n) == n + 2

\* `attempts + 1`, the value verify2FA stores before it compares the code
TwoFAAuth_counted(n) == n + 1

\* a challenge that expires at the time it is made
TwoFAAuth_newSession_noLifetime(userId, code, t, lifetime, u) ==
  [userId |-> userId, code |-> code, createdAt |-> t, expiresAt |-> t,
   used |-> FALSE, verified |-> FALSE, userData |-> u]

\* the TwoFASession start2FA stores at time t
TwoFAAuth_newSession(userId, code, t, lifetime, u) ==
  [userId |-> userId, code |-> code, createdAt |-> t, expiresAt |-> t + lifetime,
   used |-> FALSE, verified |-> FALSE, userData |-> u]

\* the success marked as verified only
TwoFAAuth_markVerified_verifiedOnly(session) == [session EXCEPT !.verified = TRUE]

\* `session.used = true; session.verified = true`
TwoFAAuth_markVerified(session) == [session EXCEPT !.used = TRUE, !.verified = TRUE]

\* the challenge as sendResult and its hooks find it: `session.used = true`,
\* `session.verified = true` and `this.sessions.set` precede sendResult
TwoFAAuth_atDispatch(before, after) == after

\* what start2FA finds stored for the subject (kept with its outcome)
TwoFAAuth_replaced(m, key) ==
  IF key \notin DOMAIN m THEN "nothing"
  ELSE IF m[key].verified THEN "verified" ELSE "pending"

\* start2FA(userId, userData): a new challenge replaces the subject's
\* challenge and the attempt counter is set to 0
start2FA ==
  /\ kind = "twofa"
  /\ \E userId \in Subjects, u \in {Undefined, "u1"}, r \in 0..(TwoFARandomDen - 1) :
       LET o == TwoFAAuth_options(tfOpts)
           code == TwoFAAuth_generateCode(o.codeLength, r)
       IN  /\ tfSessions' = MapSet(tfSessions, userId,
                 TwoFAAuth_newSession(userId, code, now, o.codeLifetime, u))
           /\ attempts' = MapSet(attempts, userId, 0)
           /\ wrongTries' = [wrongTries EXCEPT ![userId] = 0]
           /\ ret' = [NoRet EXCEPT !.op = "start2FA", !.value = userId, !.result = code,
                                    !.arg = TwoFAAuth_replaced(tfSessions, userId)]
  /\ UNCHANGED <<kind, integration, opts, now, tfOpts, artifactVars, sessionVars, wOpts>>

\* verify2FA(userId, code), from its first statement to its return
TwoFAAuth_verify2FA ==
  /\ kind = "twofa"
  /\ \E userId \in Subjects, code \in TwoFACodes(TwoFAAuth_options(tfOpts).codeLength),
        fails \in {{}, Hooks}, reenter \in BOOLEAN :
       LET o == TwoFAAuth_options(tfOpts)
           r == [op |-> "verify2FA", value |-> userId, arg |-> code, rivalWon |-> FALSE]
           n == TwoFAAuth_attempts(attempts, userId)
           d == TwoFAAuth_sendResult(opts, fails)
       IN  IF userId \notin DOMAIN tfSessions
           THEN /\ ret' = Outcome(r, "false", NoDispatch)
                /\ UNCHANGED <<tfSessions, attempts, wrongTries>>
           ELSE LET session == tfSessions[userId]
                    wrong == IF session.code # code /\ wrongTries[userId] < o.maxAttempts
                             THEN [wrongTries EXCEPT ![userId] = @ + 1]
                             ELSE wrongTries
                IN  /\ wrongTries' = wrong
                    /\ IF \/ TwoFAAuth_expired(now, session)
                          \/ TwoFAAuth_used(session)
                          \/ TwoFAAuth_exhausted(n, o.maxAttempts)
                       THEN /\ ret' = Outcome(r, "false", NoDispatch)
                            /\ UNCHANGED <<tfSessions, attempts>>
                       ELSE /\ attempts' = MapSet(attempts, userId, TwoFAAuth_counted(n))
                            /\ IF session.code # code
                               THEN /\ ret' = Outcome(r, "false", NoDispatch)
                                    /\ UNCHANGED tfSessions
                               ELSE LET seen == TwoFAAuth_atDispatch(session,
                                                   TwoFAAuth_markVerified(session))
                                    IN
                                    /\ tfSessions' = [tfSessions EXCEPT ![userId] =
                                         TwoFAAuth_markVerified(@)]
                                    /\ ret' = Outcome(r, "true",
                                         Reentered(
                                           Dispatched(d,
                                             IF session.userData # Undefined
                                             THEN session.userData
                                             ELSE "synthetic"),
                                           reenter,
                                           \/ TwoFAAuth_expired(now, seen)
                                           \/ TwoFAAuth_used(seen)
                                           \/ TwoFAAuth_exhausted(TwoFAAuth_counted(n),
                                                                  o.maxAttempts)))
  /\ UNCHANGED <<kind, integration, opts, now, tfOpts, artifactVars, sessionVars, wOpts>>

\* an absent challenge read as verified
TwoFAAuth_verifiedFlag_absentTrue(m, key) ==
  IF key \in DOMAIN m THEN m[key].verified ELSE TRUE

\* `session ? session.verified : false`
TwoFAAuth_verifiedFlag(m, key) ==
  IF key \in DOMAIN m THEN m[key].verified ELSE FALSE

\* isVerified(userId)
isVerified ==
  /\ kind = "twofa"
  /\ \E userId \in Subjects :
       ret' = [NoRet EXCEPT !.op = "isVerified", !.value = userId,
                            !.result = IF TwoFAAuth_verifiedFlag(tfSessions, userId)
                                       THEN "true" ELSE "false"]
  /\ UNCHANGED <<kind, integration, opts, now, artifactVars, twoFAVars, sessionVars, wOpts>>

\* reset2FA(userId)
reset2FA ==
  /\ kind = "twofa"
  /\ \E userId \in Subjects :
       /\ tfSessions' = MapDelete(tfSessions, userId)
       /\ attempts' = MapDelete(attempts, userId)
       /\ wrongTries' = [wrongTries EXCEPT ![userId] = 0]
       /\ ret' = [NoRet EXCEPT !.op = "reset2FA", !.value = userId]
  /\ UNCHANGED <<kind, integration, opts, now, tfOpts, artifactVars, sessionVars, wOpts>>

\* time passes
TickTwoFA ==
  /\ kind = "twofa"
  /\ now < MaxTime
  /\ now' = now + 1
  /\ UNCHANGED <<kind, integration, opts, ret, artifactVars, twoFAVars, sessionVars, wOpts>>

-----------------------------------------------------------------------------
(* SessionManager *)

\* the default of the constructor, 1000 * 60 * 60 * 24 * 30 ms (30 days).
\* The times of SessionManager (Date.now(), createdAt, lastActivity,
\* sessionLifetime) are counted in seconds here, all of them multiples of
\* 1000 ms: the value in milliseconds is beyond the integers of the checker.
DefaultSessionLifetime == 60 * 60 * 24 * 30

\* this.options.sessionLifetime after the constructor
SessionManager_lifetime(supplied) == OrDefault(supplied, DefaultSessionLifetime)

\* the values of tokenGenerator(); a generator may return a value again
SessionIds == {<<"sid", i>> : i \in 1..NumSessionIds}

\* a metadata object with the one field k; an absent metadata (undefined)
\* is written as the object without fields, which spreads the same way
Meta(k, v) == [x \in {k} |-> v]
NoMetadata == EmptyMap

\* the metadata objects callers pass: to createSession, and to updateSession
CreateMetadata == {Meta("a", 1)}
UpdateMetadata == {Meta("b", 1)}

\* `{ ...x, ...y }`: the fields of y, and the fields of x that y has not
Spread(x, y) ==
  [k \in (DOMAIN x) \cup (DOMAIN y) |-> IF k \in DOMAIN y THEN y[k] ELSE x[k]]

\* the snapshots a previous run of the process can have left in the store:
\* none, and one session, last active when this process started
Snapshots ==
  {EmptyMap} \cup
  {[i \in {id} |-> [userData |-> "u1", createdAt |-> 0, lastActivity |-> 0,
                    metadata |-> NoMetadata]] : id \in SessionIds}

\* the expiry test granting one unit of time more
SessionManager_expired_late(t, session, lifetime) == t - session.lastActivity > lifetime + 1

\* `Date.now() - session.lastActivity > this.options.sessionLifetime`
SessionManager_expired(t, session, lifetime) == t - session.lastActivity > lifetime

\* how persistentStore.save(...) ends for the caller that awaits it
SaveOutcomes == {"resolves", "rejects", "pending"}

\* the outcome of an async method that awaits saveSessions() and then
\* returns `value`
AfterSave(outcome, value) ==
  IF outcome = "resolves" THEN value
  ELSE IF outcome = "rejects" THEN "rejected" ELSE "pending"

\* the outcome of a SessionManager call on the session id `value` (or for
\* the user id `value`): `saves` counts the calls of persistentStore.save it
\* made, and `save` tells how the promise of that call ended ("none" when
\* there was no call)
SmRet(op, value, result, saves, save) ==
  [op |-> op, value |-> value, result |-> result, saves |-> saves, save |-> save]

\* the mutation undone when the save is rejected
SessionManager_kept_rolledBack(outcome, before, after) ==
  IF outcome = "rejects" THEN before ELSE after

\* this.sessions after a method that changed it from `before` to `after` and
\* then called saveSessions(): no method has a catch or a rollback
SessionManager_kept(outcome, before, after) == after

\* a save made on every sweep
SessionManager_sweepSaves_always(dead) == 1

\* `if (hasDeleted) this.saveSessions()`: the saves of a sweep that removed
\* the sessions `dead`
SessionManager_sweepSaves(dead) == IF dead = {} THEN 0 ELSE 1

\* the collection emptied when the load fails
SessionManager_afterLoadFailure_emptied(m) == EmptyMap

\* this.sessions after the catch block of loadSessions: the assignment did
\* not take place
SessionManager_afterLoadFailure(m) == m

\* createSession(userData, metadata)
createSession ==
  /\ kind = "session"
  /\ \E sessionId \in SessionIds, u \in UserData, metadata \in CreateMetadata,
        outcome \in SaveOutcomes :
       /\ smSessions' = SessionManager_kept(outcome, smSessions,
             MapSet(smSessions, sessionId,
               [userData |-> u, createdAt |-> now, lastActivity |-> now,
                metadata |-> metadata]))
       /\ gone' = gone \ {sessionId}
       /\ ret' = SmRet("createSession", sessionId, AfterSave(outcome, "session"), 1,
                       outcome)
  /\ UNCHANGED <<kind, integration, opts, now, artifactVars, twoFAVars, smLifetime, load, snapshot, wOpts>>

\* getSession(sessionId)
getSession ==
  /\ kind = "session"
  /\ \E sessionId \in SessionIds, outcome \in SaveOutcomes :
       IF sessionId \notin DOMAIN smSessions
       THEN /\ ret' = SmRet("getSession", sessionId, "undefined", 0, "none")
            /\ UNCHANGED <<smSessions, gone>>
       ELSE IF SessionManager_expired(now, smSessions[sessionId],
                                      SessionManager_lifetime(smLifetime))
       THEN /\ smSessions' = SessionManager_kept(outcome, smSessions,
                                                MapDelete(smSessions, sessionId))
            /\ gone' = gone \cup {sessionId}
            /\ ret' = SmRet("getSession", sessionId, "undefined", 1, outcome)
       ELSE /\ smSessions' = [smSessions EXCEPT ![sessionId] =
                 [@ EXCEPT !.lastActivity = now]]
            /\ ret' = SmRet("getSession", sessionId, "session", 0, "none")
            /\ UNCHANGED gone
  /\ UNCHANGED <<kind, integration, opts, now, artifactVars, twoFAVars, smLifetime, load, snapshot, wOpts>>

\* updateSession(sessionId, metadata)
updateSession ==
  /\ kind = "session"
  /\ \E sessionId \in SessionIds, metadata \in UpdateMetadata, outcome \in SaveOutcomes :
       IF sessionId \notin DOMAIN smSessions
       THEN /\ ret' = SmRet("updateSession", sessionId, "false", 0, "none")
            /\ UNCHANGED smSessions
       ELSE /\ smSessions' = SessionManager_kept(outcome, smSessions,
                 [smSessions EXCEPT ![sessionId] =
                    [@ EXCEPT !.metadata = Spread(@, metadata), !.lastActivity = now]])
            /\ ret' = SmRet("updateSession", sessionId,
                            AfterSave(outcome, "true"), 1, outcome)
  /\ UNCHANGED <<kind, integration, opts, now, artifactVars, twoFAVars, smLifetime, load, snapshot, gone, wOpts>>

\* deleteSession(sessionId)
deleteSession ==
  /\ kind = "session"
  /\ \E sessionId \in SessionIds, outcome \in SaveOutcomes :
       /\ smSessions' = SessionManager_kept(outcome, smSessions,
                                           MapDelete(smSessions, sessionId))
       /\ ret' = SmRet("deleteSession", sessionId,
                       AfterSave(outcome,
                                 IF sessionId \in DOMAIN smSessions THEN "true" ELSE "false"),
                       1, outcome)
  /\ UNCHANGED <<kind, integration, opts, now, artifactVars, twoFAVars, smLifetime, load, snapshot, gone, wOpts>>

\* clearUserSessions(userId); the id of an identity is the identity itself,
\* and the number returned is written in decimal
clearUserSessions ==
  /\ kind = "session"
  /\ \E userId \in UserData, outcome \in SaveOutcomes :
       LET hit == {id \in DOMAIN smSessions : smSessions[id].userData = userId}
       IN  /\ smSessions' = SessionManager_kept(outcome, smSessions,
                 [id \in (DOMAIN smSessions) \ hit |-> smSessions[id]])
           /\ ret' = IF hit = {}
                     THEN SmRet("clearUserSessions", userId, ToString(0), 0, "none")
                     ELSE SmRet("clearUserSessions", userId,
                                AfterSave(outcome, ToString(Cardinality(hit))), 1, outcome)
  /\ UNCHANGED <<kind, integration, opts, now, artifactVars, twoFAVars, smLifetime, load, snapshot, gone, wOpts>>

\* cleanExpiredSessions(), run by the interval timer
cleanExpiredSessions ==
  /\ kind = "session"
  /\ \E outcome \in SaveOutcomes :
     LET dead == {id \in DOMAIN smSessions :
                    SessionManager_expired(now, smSessions[id],
                                           SessionManager_lifetime(smLifetime))}
         saves == SessionManager_sweepSaves(dead)
     IN  /\ smSessions' = SessionManager_kept(outcome, smSessions,
               [id \in (DOMAIN smSessions) \ dead |-> smSessions[id]])
         /\ ret' = SmRet("cleanExpiredSessions", Undefined, "void", saves,
                         IF saves = 0 THEN "none" ELSE outcome)
  /\ UNCHANGED <<kind, integration, opts, now, artifactVars, twoFAVars, smLifetime, load, snapshot, gone, wOpts>>

\* loadSessions(): the promise of persistentStore.load() resolves and the
\* collection is replaced by the Map it resolved with
loadSessions_resolve ==
  /\ kind = "session"
  /\ load = "pending"
  /\ load' = "resolved"
  /\ smSessions' = snapshot
  /\ gone' = {}
  /\ UNCHANGED <<kind, integration, opts, now, ret, artifactVars, twoFAVars, smLifetime, snapshot, wOpts>>

\* loadSessions(): the promise rejects; the catch block logs the error
loadSessions_reject ==
  /\ kind = "session"
  /\ load = "pending"
  /\ load' = "rejected"
  /\ smSessions' = SessionManager_afterLoadFailure(smSessions)
  /\ UNCHANGED <<kind, integration, opts, now, ret, artifactVars, twoFAVars, smLifetime,
                 snapshot, gone, wOpts>>

\* time passes
TickSession ==
  /\ kind = "session"
  /\ now < MaxTime
  /\ now' = now + 1
  /\ UNCHANGED <<kind, integration, opts, ret, artifactVars, twoFAVars, sessionVars, wOpts>>

-----------------------------------------------------------------------------
(* WidgetAuth *)

\* JavaScript values of payload fields: numbers, and strings as sequences of
\* character codes
Num(n) == [num |-> n]
Str(chars) == [str |-> chars]
IsNum(v) == DOMAIN v = {"num"}
IsStr(v) == DOMAIN v = {"str"}

\* the character codes of '0' and '9'
Char0 == 48
Char9 == 57

\* `${v}`: the text of a value
ToText(v) ==
  IF IsNum(v)
  THEN LET d == DecimalString(v.num) IN [i \in 1..Len(d) |-> Char0 + d[i]]
  ELSE IF IsStr(v) THEN v.str ELSE <<>>

\* `!!v`: 0 and '' are falsy; a digest is a non-empty string
Truthy(v) == IF IsNum(v) THEN v.num # 0 ELSE IF IsStr(v) THEN Len(v.str) > 0 ELSE TRUE

\* NaN
NaN == [nan |-> TRUE]

\* parseInt(v): the number written by the leading decimal digits of the text
\* of v, NaN when the text does not start with a digit
RECURSIVE ParseDigits(_, _, _)
ParseDigits(t, i, acc) ==
  IF i <= Len(t) /\ t[i] >= Char0 /\ t[i] <= Char9
  THEN ParseDigits(t, i + 1, 10 * acc + (t[i] - Char0))
  ELSE acc

ParseInt(v) ==
  LET t == ToText(v)
  IN  IF Len(t) > 0 /\ t[1] >= Char0 /\ t[1] <= Char9
      THEN Num(ParseDigits(t, 1, 0))
      ELSE NaN

\* bot tokens: the token of the bot, and the token of another bot
BotToken == "token-A"
OtherToken == "token-B"

\* createHash('sha256').update(token).digest(): the key derived from a token
Sha256(token) == <<"sha256", token>>

\* createHmac('sha256', key).update(text).digest('hex'): a digest is
\* determined by its key and its text, and differs when either differs
Hmac(key, text) == [hmacKey |-> key, hmacText |-> text]

\* the field names a payload can carry besides hash, in sorted order
FieldOrder == <<"auth_date", "first_name", "id", "username">>

\* Object.keys(data).sort() for an object with the keys ks
SortedKeys(ks) == SelectSeq(FieldOrder, LAMBDA k : k \in ks)

\* the lines `key=value` of a check string over the keys ks of the object f,
\* joined by '\n' (no value here contains a line break)
Lines(f, ks) ==
  LET keys == SortedKeys(ks)
  IN  [i \in 1..Len(keys) |-> <<keys[i], ToText(f[keys[i]])>>]

\* dataCheckString of validateSignature: hash deleted, the keys sorted, the
\* keys with a falsy value left out
WidgetAuth_dataCheckString(f) ==
  Lines(f, {k \in (DOMAIN f) \ {"hash"} : Truthy(f[k])})

\* validateSignature(data), the botToken being a string
WidgetAuth_validateSignature(f, token) ==
  Hmac(Sha256(token), WidgetAuth_dataCheckString(f)) = f["hash"]

\* the default written as `options.validateSignature || false`
WidgetAuth_validateOption_defaultOff(supplied) == supplied = "true"

\* the constructor: validateSignature defaults to true when it is undefined
WidgetAuth_validateOption(supplied) ==
  IF supplied # "undefined" THEN supplied = "true" ELSE TRUE

\* the freshness window taken in milliseconds
WidgetAuth_stale_ms(nowSeconds, authDate) ==
  IF authDate = NaN THEN FALSE ELSE nowSeconds - authDate.num > 86400 * 1000

\* `now - authDate > 86400`, false when authDate is NaN
WidgetAuth_stale(nowSeconds, authDate) ==
  IF authDate = NaN THEN FALSE ELSE nowSeconds - authDate.num > 86400

\* sendResult of WidgetAuth: callback, rest, websocket, saveHandler, each
\* inside its own try/catch (the fetch promise has a catch handler)
WidgetAuth_sendResult(o, fails) ==
  LET hooks == <<[on |-> "callback" \in o.transport /\ o.onAuth, hook |-> "callback"],
                 [on |-> "rest" \in o.transport /\ o.restEndpoint, hook |-> "rest"],
                 [on |-> "websocket" \in o.transport /\ o.wsServer, hook |-> "websocket"],
                 [on |-> o.saveHandler, hook |-> "save"]>>
      enabled == SelectSeq(hooks, LAMBDA h : h.on)
  IN  [invoked |-> [i \in 1..Len(enabled) |-> enabled[i].hook], threw |-> FALSE]

\* what Telegram sends for a login: the fields, and the digest of all of
\* them under the token of a bot
SignedBy(f, token) == Hmac(Sha256(token), Lines(f, DOMAIN f))

\* the fields other than hash of a complete payload: id, first_name,
\* auth_date (a number or a string), and username absent, empty or not
CompleteFields ==
  {[k \in {"id", "first_name", "auth_date"} \cup un.keys |->
      IF k = "id" THEN Num(7)
      ELSE IF k = "first_name" THEN Str(<<65>>)
      ELSE IF k = "auth_date" THEN d ELSE un.value] :
     d \in {Num(1), Num(86401), Str(<<49>>), Str(<<120>>)},
     un \in {[keys |-> {}, value |-> Str(<<>>)],
             [keys |-> {"username"}, value |-> Str(<<>>)],
             [keys |-> {"username"}, value |-> Str(<<98>>)]}}

\* f without the field k
Without(f, k) == [x \in (DOMAIN f) \ {k} |-> f[x]]

\* the payload fields other than hash that callers send here: complete, or
\* with one required field missing or falsy
WidgetFields ==
  CompleteFields
    \cup {Without(f, k) : f \in {g \in CompleteFields : g["auth_date"] = Num(86401)
                                                       /\ "username" \notin DOMAIN g},
                          k \in {"id", "first_name", "auth_date"}}
    \cup {[f EXCEPT !["id"] = Num(0)] :
            f \in {g \in CompleteFields : g["auth_date"] = Num(86401)
                                          /\ "username" \notin DOMAIN g}}

\* f with its username removed, emptied or changed
UsernameVariants(f) ==
  {f, Without(f, "username")} \cup
  {[k \in (DOMAIN f) \cup {"username"} |-> IF k = "username" THEN u ELSE f[k]] :
     u \in {Str(<<>>), Str(<<99>>)}}

\* the hash values sent with the fields f: the digest Telegram makes of f or
\* of a variant of f for this bot, its digest of f for another bot, and a
\* string that is no digest
WidgetHashes(f) ==
  {SignedBy(g, BotToken) : g \in UsernameVariants(f)}
    \cup {SignedBy(f, OtherToken), Str(<<102>>)}

\* a payload: not an object (null, a string), or an object
NotAnObject == [object |-> FALSE]
WidgetObject(f) == [object |-> TRUE, fields |-> f]

WithHash(f, h) == [k \in (DOMAIN f) \cup {"hash"} |-> IF k = "hash" THEN h ELSE f[k]]

\* the payload object when handleAuth has ended: validateSignature deletes
\* data.hash and assigns it again after the digests, so a call that the
\* digest ends with an exception leaves the object without hash
WidgetAuth_after(data, result) ==
  IF result = "threw" THEN [data EXCEPT !.fields = Without(@, "hash")] ELSE data

\* the outcome of a call of handleAuth, with the value of Date.now() during
\* it and the payload object as the call leaves it
WidgetRet(data, result, d) ==
  [op |-> "WidgetAuth.handleAuth", data |-> data, clock |-> now,
   result |-> result, dispatch |-> d, after |-> WidgetAuth_after(data, result)]

\* the required fields, in the order of the loop
RequiredFields == <<"id", "first_name", "auth_date", "hash">>

\* handleAuth(data) for an object with the fields f
WidgetAuth_handleObject(f, fails) ==
  IF \E i \in 1..Len(RequiredFields) :
       RequiredFields[i] \notin DOMAIN f \/ ~Truthy(f[RequiredFields[i]])
  THEN WidgetRet(WidgetObject(f), "false", NoDispatch)
  ELSE IF WidgetAuth_stale(now \div 1000, ParseInt(f["auth_date"]))
  THEN WidgetRet(WidgetObject(f), "false", NoDispatch)
  ELSE IF WidgetAuth_validateOption(wOpts.validateSignature) /\ wOpts.botToken = Undefined
       \* createHash('sha256').update(undefined) throws a TypeError
  THEN WidgetRet(WidgetObject(f), "threw", NoDispatch)
  ELSE IF /\ WidgetAuth_validateOption(wOpts.validateSignature)
          /\ ~WidgetAuth_validateSignature(f, wOpts.botToken)
  THEN WidgetRet(WidgetObject(f), "false", NoDispatch)
  ELSE WidgetRet(WidgetObject(f), "true",
         Dispatched(WidgetAuth_sendResult(opts, fails),
                    [id |-> ParseInt(f["id"]), first_name |-> f["first_name"]]))

\* handleAuth(data), from its first statement to its return
WidgetAuth_handleAuth ==
  /\ kind = "widget"
  /\ \/ ret' = WidgetRet(NotAnObject, "false", NoDispatch)
     \/ \E f \in WidgetFields, fails \in {{}, Hooks} :
          \/ ret' = WidgetAuth_handleObject(f, fails)
          \/ \E h \in WidgetHashes(f) : ret' = WidgetAuth_handleObject(WithHash(f, h), fails)
  /\ UNCHANGED <<kind, integration, opts, now, artifactVars, twoFAVars, sessionVars, wOpts>>

\* handleAuth(data) called again with the payload object of the last call
WidgetAuth_handleAuth_again ==
  /\ kind = "widget"
  /\ ret.op = "WidgetAuth.handleAuth"
  /\ IF ret.after.object
     THEN \E fails \in {{}, Hooks} : ret' = WidgetAuth_handleObject(ret.after.fields, fails)
     ELSE ret' = WidgetRet(NotAnObject, "false", NoDispatch)
  /\ UNCHANGED <<kind, integration, opts, now, artifactVars, twoFAVars, sessionVars, wOpts>>

\* the time at which the model of WidgetAuth starts, in milliseconds: half
\* a second past 86400 s
WidgetStart == 86400 * 1000 + 500

\* time passes, a second at a time
TickWidget ==
  /\ kind = "widget"
  /\ now < WidgetStart + MaxTime * 1000
  /\ now' = now + 1000
  /\ UNCHANGED <<kind, integration, opts, ret, artifactVars, twoFAVars, sessionVars, wOpts>>

-----------------------------------------------------------------------------
(* TelegrafIntegration and NestJSIntegration: the two constructors build    *)
(* the options of their DeeplinkAuth and CodeAuth with the same statements. *)
(* The model follows the DeeplinkAuth of an integration and the sessions of *)
(* its SessionManager.                                                      *)

\* the options of an integration: useSessionManager (true when absent) and
\* the authOptions the user passes: none, or an onAuth handler
IntegrationOptions ==
  [useSessionManager : BOOLEAN, authOptions : {EmptyMap, [onAuth |-> "user"]}]

\* the options of the objects that are no integration
NoIntegration == [useSessionManager |-> FALSE, authOptions |-> EmptyMap]

\* `{ botToken, transport: ['callback'], onAuth: wrapper, ...authOptions }`:
\* the options the DeeplinkAuth and the CodeAuth are constructed with, the
\* user's authOptions spread over the transport and the onAuth wrapper
Integration_authOptions(user) ==
  Spread([transport |-> {"callback"}, onAuth |-> "wrapper"], user)

\* what sendResult reads of these options
Integration_transportOptions(user) ==
  [transport |-> Integration_authOptions(user).transport,
   saveHandler |-> FALSE, onAuth |-> TRUE, restEndpoint |-> FALSE, wsServer |-> FALSE]

\* what the onAuth handler of the DeeplinkAuth does when sendResult invokes
\* it, in order: the user's handler runs at once; the wrapper, when the
\* user gave an onAuth, creates a session and calls the user's handler when
\* createSession has resolved (with useSessionManager), or calls it at once
Integration_onAuth(o, outcome) ==
  IF Integration_authOptions(o.authOptions).onAuth = "user" THEN <<"onAuth">>
  ELSE IF "onAuth" \notin DOMAIN o.authOptions THEN <<>>
  ELSE IF o.useSessionManager
  THEN <<"createSession">> \o (IF outcome = "resolves" THEN <<"onAuth">> ELSE <<>>)
  ELSE <<"onAuth">>

\* the outcome of a handleAuth call of the integration's DeeplinkAuth, with
\* what its onAuth handler did
IntegrationRet(r, res, d, events) ==
  [op |-> "Integration.handleAuth", value |-> r.value, arg |-> r.arg,
   result |-> res, rivalWon |-> r.rivalWon, dispatch |-> d, events |-> events]

\* generateDeeplink() of the integration: deeplinkAuth.generateDeeplink()
Integration_generateDeeplink ==
  /\ kind = "integration"
  /\ \E token \in Tokens \ DOMAIN sessions :
       sessions' = MapSet(sessions, token,
                     [createdAt |-> now, used |-> FALSE, userData |-> Undefined])
  /\ UNCHANGED <<kind, integration, opts, now, queue, ret, redeemed, twoFAVars,
                 sessionVars, wOpts>>

\* the bot receives /start <token> from a user
Integration_start ==
  /\ kind = "integration"
  /\ \E token \in Tokens \cup {UnknownToken}, u \in UserData : Issue(token, u)
  /\ UNCHANGED <<kind, integration, opts, now, sessions, ret, redeemed, twoFAVars,
                 sessionVars, wOpts>>

\* deeplinkAuth.handleAuth(token, user) in the integration, with the onAuth
\* handler it invokes and the session that handler creates
Integration_handleAuth ==
  /\ kind = "integration"
  /\ \E r \in DOMAIN queue, outcome \in SaveOutcomes, sessionId \in SessionIds :
       LET token == r.value
           rest == queue (-) SetToBag({r})
           d == DeeplinkAuth_sendResult(opts, {})
           called == \E i \in 1..Len(d.invoked) : d.invoked[i] = "callback"
           events == IF called THEN Integration_onAuth(integration, outcome) ELSE <<>>
           creates == \E i \in 1..Len(events) : events[i] = "createSession"
       IN  IF DeeplinkAuth_rejects(sessions, token)
           THEN /\ ret' = IntegrationRet(r, "false", NoDispatch, <<>>)
                /\ queue' = rest
                /\ UNCHANGED <<sessions, redeemed, smSessions>>
           ELSE /\ sessions' = [sessions EXCEPT ![token] =
                     [@ EXCEPT !.used = TRUE, !.userData = r.arg]]
                /\ ret' = IntegrationRet(r, "true", Dispatched(d, r.arg), events)
                /\ queue' = MarkRivals(rest, token, TRUE)
                /\ redeemed' = redeemed \cup {token}
                /\ smSessions' =
                     IF creates
                     THEN MapSet(smSessions, sessionId,
                            [userData |-> r.arg, createdAt |-> now, lastActivity |-> now,
                             metadata |-> NoMetadata])
                     ELSE smSessions
  /\ UNCHANGED <<kind, integration, opts, now, twoFAVars, smLifetime, load, snapshot,
                 gone, wOpts>>

-----------------------------------------------------------------------------
(* The code generators on their own: generateCode of TwoFAAuth for every    *)
(* length up to MaxCodeLength and of CodeAuth, with Math.random() = r /     *)
(* CodeRandomDen for every r, the largest value below 1 included            *)

\* the outcome of a generateCode call
Generated(op, length, r, code) ==
  [NoRet EXCEPT !.op = op, !.value = length, !.arg = r, !.result = code]

\* TwoFAAuth.generateCode(length)
TwoFAAuth_generateCode_call ==
  /\ kind = "generators"
  /\ \E length \in 1..MaxCodeLength, r \in 0..(CodeRandomDen - 1) :
       ret' = Generated("TwoFAAuth.generateCode", length, r,
                        TwoFAAuth_generateCodeOf(length, r, CodeRandomDen))
  /\ UNCHANGED <<kind, integration, opts, now, artifactVars, twoFAVars, sessionVars, wOpts>>

\* the draw of CodeAuth.generateCode
CodeAuth_generateCode_call ==
  /\ kind = "generators"
  /\ \E r \in 0..(CodeRandomDen - 1) :
       ret' = Generated("CodeAuth.generateCode", DefaultCodeLength, r,
                        CodeAuth_codeOf(r, CodeRandomDen))
  /\ UNCHANGED <<kind, integration, opts, now, artifactVars, twoFAVars, sessionVars, wOpts>>

-----------------------------------------------------------------------------
(* The environment *)

\* time passes
TickArtifact ==
  /\ kind \in {"deeplink", "code"}
  /\ now < MaxArtifactTime
  /\ now' = now + 1
  /\ UNCHANGED <<kind, integration, opts, sessions, queue, ret, redeemed, twoFAVars, sessionVars, wOpts>>

-----------------------------------------------------------------------------
(* Specifications *)

InitState ==
  /\ ret = NoRet
  /\ kind # "integration" => integration = NoIntegration
  /\ sessions = EmptyMap
  /\ queue = EmptyBag
  /\ redeemed = {}
  /\ tfSessions = EmptyMap
  /\ attempts = EmptyMap
  /\ wrongTries = [s \in Subjects |-> 0]
  /\ smSessions = EmptyMap
  /\ gone = {}

InitNoSession ==
  /\ smLifetime = 0
  /\ load = "resolved"
  /\ snapshot = EmptyMap

InitNoWidget ==
  wOpts = [botToken |-> BotToken, validateSignature |-> "undefined"]

InitArtifact ==
  /\ kind \in {"deeplink", "code"}
  /\ opts \in OptionSets
  /\ tfOpts = [codeLifetime |-> 0, codeLength |-> 0, maxAttempts |-> 0]
  /\ InitNoSession
  /\ InitNoWidget
  /\ now = 0
  /\ InitState

InitTwoFA ==
  /\ kind = "twofa"
  /\ opts \in OptionSets
  /\ tfOpts \in TwoFAOptionSets
  /\ InitNoSession
  /\ InitNoWidget
  /\ now = 0
  /\ InitState

NextTwoFA ==
  \/ start2FA
  \/ TwoFAAuth_verify2FA
  \/ isVerified
  \/ reset2FA
  \/ TickTwoFA

SpecTwoFA == InitTwoFA /\ [][NextTwoFA]_vars

NextArtifact ==
  \/ generateDeeplink
  \/ IssueDeeplinkHandleAuth
  \/ DeeplinkAuth_handleAuth
  \/ invalidateDeeplink
  \/ generateCode
  \/ IssueCodeHandleAuth
  \/ CodeAuth_handleAuth
  \/ invalidateCode
  \/ TickArtifact

SpecArtifact == InitArtifact /\ [][NextArtifact]_vars

\* new SessionManager(options): the load is started, the collection is empty
InitSession ==
  /\ kind = "session"
  /\ opts \in {o \in OptionSets : o.transport = {}}
  /\ tfOpts = [codeLifetime |-> 0, codeLength |-> 0, maxAttempts |-> 0]
  /\ smLifetime \in {0, 1}
  /\ load = "pending"
  /\ snapshot \in Snapshots
  /\ InitNoWidget
  /\ now = 0
  /\ InitState

NextSession ==
  \/ createSession
  \/ getSession
  \/ updateSession
  \/ deleteSession
  \/ clearUserSessions
  \/ cleanExpiredSessions
  \/ loadSessions_resolve
  \/ loadSessions_reject
  \/ TickSession

SpecSession == InitSession /\ [][NextSession]_vars

\* new WidgetAuth(options)
InitWidget ==
  /\ kind = "widget"
  /\ opts \in OptionSets
  /\ tfOpts = [codeLifetime |-> 0, codeLength |-> 0, maxAttempts |-> 0]
  /\ wOpts \in [botToken : {BotToken, Undefined},
                 validateSignature : {"undefined", "true", "false"}]
  /\ InitNoSession
  /\ now = WidgetStart
  /\ InitState

NextWidget ==
  \/ WidgetAuth_handleAuth
  \/ WidgetAuth_handleAuth_again
  \/ TickWidget

SpecWidget == InitWidget /\ [][NextWidget]_vars

\* the three stores that dispatch from a state change
InitGenerators ==
  /\ kind = "generators"
  /\ opts \in {o \in OptionSets : o.transport = {}}
  /\ tfOpts = [codeLifetime |-> 0, codeLength |-> 0, maxAttempts |-> 0]
  /\ InitNoSession
  /\ InitNoWidget
  /\ now = 0
  /\ InitState

NextGenerators ==
  \/ TwoFAAuth_generateCode_call
  \/ CodeAuth_generateCode_call

SpecGenerators == InitGenerators /\ [][NextGenerators]_vars

InitIntegration ==
  /\ kind = "integration"
  /\ integration \in IntegrationOptions
  /\ opts = Integration_transportOptions(integration.authOptions)
  /\ tfOpts = [codeLifetime |-> 0, codeLength |-> 0, maxAttempts |-> 0]
  /\ InitNoSession
  /\ InitNoWidget
  /\ now = 0
  /\ InitState

NextIntegration ==
  \/ Integration_generateDeeplink
  \/ Integration_start
  \/ Integration_handleAuth

SpecIntegration == InitIntegration /\ [][NextIntegration]_vars

\* createTelegramAuth -------------------------------------------------------

\* one second of Date.now()
Second == 1000

\* the options createTelegramAuth constructs its TwoFAAuth with:
\* { ...baseAuthOptions, verificationTimeout: T || 300, onVerify }, T in
\* seconds; it gives no codeLifetime, codeLength or maxAttempts
createTelegramAuth_twoFA(t) ==
  [codeLifetime |-> 0, codeLength |-> 0, maxAttempts |-> 0,
   verificationTimeout |-> OrDefault(t, 300)]

\* baseAuthOptions: one transport, callbacks.onLogin as onAuth and as
\* saveHandler, the socket instance as wsServer
createTelegramAuth_base ==
  { [transport |-> {t}, saveHandler |-> h, onAuth |-> h, restEndpoint |-> FALSE,
     wsServer |-> w] : t \in {"websocket", "callback"}, h \in BOOLEAN, w \in BOOLEAN }

\* a second passes
TickSecond ==
  /\ kind = "twofa"
  /\ "verificationTimeout" \in DOMAIN tfOpts
  /\ now < MaxSeconds * Second
  /\ now' = now + Second
  /\ UNCHANGED <<kind, integration, opts, ret, artifactVars, twoFAVars, sessionVars, wOpts>>

InitTelegramAuth ==
  /\ kind = "twofa"
  /\ opts \in createTelegramAuth_base
  \* twoFactor.verificationTimeout absent (0), or one second
  /\ \E t \in {0, 1} : tfOpts = createTelegramAuth_twoFA(t)
  /\ InitNoSession
  /\ InitNoWidget
  /\ now = 0
  /\ InitState

NextTelegramAuth ==
  \/ start2FA
  \/ TwoFAAuth_verify2FA
  \/ reset2FA
  \/ TickSecond

SpecTelegramAuth == InitTelegramAuth /\ [][NextTelegramAuth]_vars

SpecStores == (InitArtifact \/ InitTwoFA) /\ [][NextArtifact \/ NextTwoFA]_vars

Init == InitArtifact \/ InitTwoFA \/ InitSession \/ InitWidget
Next == NextArtifact \/ NextTwoFA \/ NextSession \/ NextWidget
Spec == Init /\ [][Next]_vars

-----------------------------------------------------------------------------
(* Logging.  TwoFAAuth calls logger.log once on every path of start2FA,     *)
(* verify2FA and reset2FA (and once more for a hook that throws in its      *)
(* sendResult).  DeeplinkAuth, CodeAuth and SessionManager contain no call  *)
(* of the logger or of AuditService.recordEvent.                            *)

\* the number of records the operation op of an object of class k hands to
\* the logger for the transition it makes
Core_logRecords(k, op) ==
  IF k = "twofa" /\ op \in {"start2FA", "verify2FA", "reset2FA"} THEN 1 ELSE 0

-----------------------------------------------------------------------------
(* Properties *)

\* C1: a DeeplinkAuth.handleAuth call for a token for which an earlier
\* handleAuth call returned true returns false, whatever identity it carries
\* (so handleAuth returns true at most once for a token).
C1_RedeemOnce ==
  [][(ret'.op = "handleAuth" /\ ret'.value \in redeemed /\ DeeplinkAuth_handleAuth)
       => ret'.result = "false"]_vars

\* a handleAuth call on a redeemed token, with another identity than the one
\* stored, has returned false
C1_Witness ==
  /\ kind = "deeplink"
  /\ ret.op = "handleAuth"
  /\ ret.value \in redeemed
  /\ ret.result = "false"
  /\ sessions[ret.value].userData # ret.arg

\* C2: a verify2FA call returns true only if, when it is made, the subject
\* has a challenge, the code is the challenge's code, the time is not past
\* expiresAt, the challenge is not used and the attempt counter is below
\* maxAttempts.
C2_VerifyOnlyIf ==
  [][(ret'.op = "verify2FA" /\ TwoFAAuth_verify2FA /\ ret'.result = "true") =>
       LET key == ret'.value
       IN  /\ key \in DOMAIN tfSessions
           /\ tfSessions[key].code = ret'.arg
           /\ ~(now > tfSessions[key].expiresAt)
           /\ ~tfSessions[key].used
           /\ TwoFAAuth_attempts(attempts, key) < TwoFAAuth_options(tfOpts).maxAttempts]_vars

\* a verify2FA call has returned true after a failed attempt
C2_Witness ==
  /\ ret.op = "verify2FA"
  /\ ret.result = "true"
  /\ attempts[ret.value] = 2
  /\ tfSessions[ret.value].verified

\* C3: once maxAttempts verify2FA calls with a wrong code were made against
\* a subject's challenge, verify2FA returns false for the subject, with the
\* correct code too, until start2FA; a challenge fresh from start2FA accepts
\* its code.
C3_Lockout ==
  [][(ret'.op = "verify2FA" /\ TwoFAAuth_verify2FA /\ ret'.value \in DOMAIN tfSessions) =>
       LET key == ret'.value
           session == tfSessions[key]
       IN  /\ wrongTries[key] >= TwoFAAuth_options(tfOpts).maxAttempts
                => ret'.result = "false"
           /\ (wrongTries[key] = 0 /\ ~session.used /\ now <= session.expiresAt
                 /\ session.code = ret'.arg)
                => ret'.result = "true"]_vars

\* the correct code was refused to a subject whose challenge is unexpired and
\* unused, after maxAttempts wrong codes
C3_Witness ==
  /\ ret.op = "verify2FA"
  /\ ret.result = "false"
  /\ ret.value \in DOMAIN tfSessions
  /\ tfSessions[ret.value].code = ret.arg
  /\ ~tfSessions[ret.value].used
  /\ now <= tfSessions[ret.value].expiresAt
  /\ wrongTries[ret.value] >= TwoFAAuth_options(tfOpts).maxAttempts

C5_ExpiredGetRemoves ==
  [][/\ (ret'.op = "getSession" /\ getSession) =>
          LET id == ret'.value
          IN  /\ (/\ id \in DOMAIN smSessions
                  /\ now - smSessions[id].lastActivity > SessionManager_lifetime(smLifetime))
                   => (ret'.result = "undefined" /\ id \notin DOMAIN smSessions')
              /\ id \in gone => ret'.result = "undefined"
     /\ \A id \in gone' : id \notin DOMAIN smSessions']_vars

\* getSession has found a session expired and removed it
C5_Witness ==
  /\ ret.op = "getSession"
  /\ ret.result = "undefined"
  /\ ret.saves = 1
  /\ ret.value \in gone
  /\ ret.value \notin DOMAIN smSessions

\* C6: a session with now - lastActivity > sessionLifetime is absent for
\* every operation: getSession returns undefined, and updateSession returns
\* false and changes neither its metadata nor its lastActivity.
C6_ExpiredIsAbsent ==
  [][(/\ ret'.op \in {"getSession", "updateSession"}
      /\ (getSession \/ updateSession)
      /\ ret'.value \in DOMAIN smSessions
      /\ now - smSessions[ret'.value].lastActivity > SessionManager_lifetime(smLifetime))
       => /\ ret'.result = IF ret'.op = "getSession" THEN "undefined" ELSE "false"
          /\ ret'.value \in DOMAIN smSessions'
               => smSessions'[ret'.value] = smSessions[ret'.value]]_vars

AllDigits(t) == Len(t) > 0 /\ \A i \in 1..Len(t) : t[i] >= Char0 /\ t[i] <= Char9

\* C8: handleAuth returns false, and dispatches nothing, for every payload
\* whose auth_date (a number, or a string of digits) is more than 86400
\* seconds before the time of the call in whole seconds, whatever its hash
\* and whether or not the instance validates signatures or can compute one.
C8_StaleRejected ==
  (/\ ret.op = "WidgetAuth.handleAuth"
   /\ ret.data.object
   /\ "auth_date" \in DOMAIN ret.data.fields
   /\ AllDigits(ToText(ret.data.fields["auth_date"]))
   /\ (ret.clock \div 1000) - ParseDigits(ToText(ret.data.fields["auth_date"]), 1, 0) > 86400)
    => (ret.result = "false" /\ ret.dispatch.ran = 0)

\* an instance that does not validate signatures has rejected a complete
\* payload with auth_date 1, 86401 s and more before the call
C8_Witness ==
  /\ ret.op = "WidgetAuth.handleAuth"
  /\ ret.result = "false"
  /\ wOpts.validateSignature = "false"
  /\ ret.data.object
  /\ \A k \in {"id", "first_name", "auth_date", "hash"} :
       k \in DOMAIN ret.data.fields /\ Truthy(ret.data.fields[k])
  /\ ret.data.fields["auth_date"] = Num(1)
  /\ ret.clock \div 1000 > 86401

\* C9: the dispatch runs in a handleAuth / verify2FA call exactly if the call
\* returns true (one dispatch per true result, none otherwise).
C9_DispatchIffTrue ==
  ret.op \in {"handleAuth", "verify2FA"} =>
    (ret.dispatch.ran = 1 <=> ret.result = "true")

\* C10: a used CodeAuth artifact stays used and keeps its identity, and
\* handleAuth does not return true for its code again.
C10_UsedIsFinal ==
  [][kind = "code" =>
       /\ \A c \in DOMAIN sessions :
            sessions[c].used =>
              /\ sessions'[c].used
              /\ sessions'[c].userData = sessions[c].userData
       /\ (ret'.op = "handleAuth" /\ ret'.value \in redeemed /\ CodeAuth_handleAuth)
            => ret'.result # "true"]_vars

\* C11: after start2FA(subject) the store holds for the subject a challenge
\* with the returned code, used = false, verified = false and expiresAt =
\* now + codeLifetime, and its attempt counter is 0, whatever the subject's
\* challenge and counter were before.
C11_StartReplaces ==
  [][(ret'.op = "start2FA" /\ start2FA) =>
       LET key == ret'.value
       IN  /\ key \in DOMAIN tfSessions'
           /\ tfSessions'[key].code = ret'.result
           /\ ~tfSessions'[key].used
           /\ ~tfSessions'[key].verified
           /\ tfSessions'[key].expiresAt = now + TwoFAAuth_options(tfOpts).codeLifetime
           /\ key \in DOMAIN attempts'
           /\ attempts'[key] = 0]_vars

\* start2FA has replaced a verified challenge, and the subject's challenge is
\* unverified with a counter of 0
C11_Witness ==
  /\ ret.op = "start2FA"
  /\ ret.arg = "verified"
  /\ ~tfSessions[ret.value].verified
  /\ attempts[ret.value] = 0

\* C12: the attempt counter of every subject stays within 0..maxAttempts; it
\* changes only by +1 in a verify2FA call that reaches the code comparison,
\* to 0 in start2FA and by removal in reset2FA; and every verify2FA call
\* that reaches the comparison adds 1, whether the code matches or not.
C12_AttemptsCounted ==
  [][\A key \in Subjects :
       LET n == TwoFAAuth_attempts(attempts, key)
           m == TwoFAAuth_attempts(attempts', key)
           max == TwoFAAuth_options(tfOpts).maxAttempts
           compares == /\ key \in DOMAIN tfSessions
                       /\ now <= tfSessions[key].expiresAt
                       /\ ~tfSessions[key].used
                       /\ n < max
       IN  /\ m \in 0..max
           /\ \/ ((key \in DOMAIN attempts <=> key \in DOMAIN attempts') /\ m = n)
              \/ (ret'.op = "verify2FA" /\ ret'.value = key /\ compares /\ m = n + 1
                     /\ key \in DOMAIN attempts')
              \/ (ret'.op = "start2FA" /\ ret'.value = key /\ key \in DOMAIN attempts'
                     /\ m = 0)
              \/ (ret'.op = "reset2FA" /\ ret'.value = key /\ key \notin DOMAIN attempts')
           /\ (ret'.op = "verify2FA" /\ TwoFAAuth_verify2FA /\ ret'.value = key /\ compares)
                => m = n + 1]_vars

\* a verify2FA call with the matching code was counted as the first attempt
C12_Witness ==
  /\ ret.op = "verify2FA"
  /\ ret.result = "true"
  /\ attempts[ret.value] = 1

\* C13: every stored challenge with verified = true has used = true.
C13_VerifiedImpliesUsed ==
  \A key \in DOMAIN tfSessions : tfSessions[key].verified => tfSessions[key].used

\* a verified challenge is stored past its expiry
C13_Witness ==
  \E key \in DOMAIN tfSessions : tfSessions[key].verified /\ now > tfSessions[key].expiresAt

\* C14: a verify2FA call for a subject without a challenge, or whose
\* challenge is expired or used, or whose attempts are exhausted, returns
\* false, dispatches nothing and leaves the challenges and the counters as
\* they were.
C14_RefusalChangesNothing ==
  [][(/\ ret'.op = "verify2FA"
      /\ TwoFAAuth_verify2FA
      /\ LET key == ret'.value
         IN  \/ key \notin DOMAIN tfSessions
             \/ now > tfSessions[key].expiresAt
             \/ tfSessions[key].used
             \/ TwoFAAuth_attempts(attempts, key) >= TwoFAAuth_options(tfOpts).maxAttempts)
       => /\ ret'.result = "false"
          /\ ret'.dispatch.ran = 0
          /\ tfSessions' = tfSessions
          /\ attempts' = attempts]_vars

\* the code of a used challenge was refused before the challenge expired
C14_Witness ==
  /\ ret.op = "verify2FA"
  /\ ret.result = "false"
  /\ ret.value \in DOMAIN tfSessions
  /\ tfSessions[ret.value].used
  /\ tfSessions[ret.value].code = ret.arg
  /\ now <= tfSessions[ret.value].expiresAt

\* C15: invalidateDeeplink(value) / invalidateCode(value) dispatches nothing;
\* on an absent value and on a used artifact it changes nothing; it leaves a
\* stored artifact used; and from then on the artifact stays used and
\* handleAuth(value, .) returns false.
C15_InvalidateFinal ==
  [][/\ (ret'.op = "invalidate" /\ (invalidateDeeplink \/ invalidateCode)) =>
          LET v == ret'.value
          IN  /\ ret'.dispatch.ran = 0
              /\ v \notin DOMAIN sessions => sessions' = sessions
              /\ v \in DOMAIN sessions =>
                    /\ sessions[v].used => sessions' = sessions
                    /\ v \in DOMAIN sessions' /\ sessions'[v].used
     /\ \A v \in DOMAIN sessions :
          (sessions[v].used /\ sessions[v].userData = Undefined) =>
            (v \in DOMAIN sessions' /\ sessions'[v].used)
     /\ (/\ ret'.op = "handleAuth"
         /\ ret'.value \in DOMAIN sessions
         /\ sessions[ret'.value].used
         /\ sessions[ret'.value].userData = Undefined
         /\ DeeplinkAuth_handleAuth \/ CodeAuth_handleAuth)
          => ret'.result = "false"]_vars

\* C16: handleAuth on a value that is not stored and handleAuth on a used
\* artifact have one and the same outcome: the return value false, no
\* dispatch, no exception, and the store unchanged.
C16_RefusalsAlike ==
  [][(/\ ret'.op = "handleAuth"
      /\ ret'.value \notin DOMAIN sessions \/ sessions[ret'.value].used
      /\ DeeplinkAuth_handleAuth \/ CodeAuth_handleAuth)
       => /\ ret'.result = "false"
          /\ ret'.dispatch = NoDispatch
          /\ sessions' = sessions]_vars

\* handleAuth has refused a value that is not stored, in a store that holds
\* a redeemed and an invalidated artifact or both in one
C16_Witness ==
  /\ ret.op = "handleAuth"
  /\ ret.result = "false"
  /\ ret.value \notin DOMAIN sessions
  /\ \E v \in DOMAIN sessions : sessions[v].used

\* values a field is changed to or added with: 0, 7, '', '7', 'b'
ChangedValues == {Num(0), Num(7), Str(<<>>), Str(<<55>>), Str(<<98>>)}

\* the payloads that differ from the payload f in one field other than hash:
\* the field removed, given another value, or added
SingleFieldChanges(f) ==
  LET names == {FieldOrder[i] : i \in 1..Len(FieldOrder)}
  IN  {Without(f, k) : k \in (DOMAIN f) \ {"hash"}}
        \cup UNION {{[x \in (DOMAIN f) \cup {k} |-> IF x = k THEN v ELSE f[x]] :
                       v \in {w \in ChangedValues : k \notin DOMAIN f \/ w # f[k]}} :
                     k \in names}

\* C17: when validateSignature accepts a payload, it rejects every payload
\* that differs from it in one field other than hash (the field removed,
\* changed, or added).
C17_AnyFieldChangeRejected ==
  (/\ ret.op = "WidgetAuth.handleAuth"
   /\ ret.data.object
   /\ "hash" \in DOMAIN ret.data.fields
   /\ wOpts.botToken # Undefined
   /\ WidgetAuth_validateSignature(ret.data.fields, wOpts.botToken))
    => \A g \in SingleFieldChanges(ret.data.fields) :
         ~WidgetAuth_validateSignature(g, wOpts.botToken)

\* C18: a handleAuth / verify2FA call whose checks pass, so that the
\* dispatch runs, returns true, whatever a delivery channel or the
\* saveHandler throws.
C18_ChannelThrowsCaught ==
  (ret.op \in {"handleAuth", "verify2FA"} /\ ret.dispatch.ran = 1) => ret.result = "true"

\* C19: when a channel throws in the dispatch of a redemption, the artifact
\* is used and holds the identity of the call; it stays so from then on, and
\* handleAuth with its value returns false.  (An artifact that is used and
\* holds an identity while no call for its value returned true was redeemed
\* by a call that threw.)
C19_ThrowKeepsRedemption ==
  [][/\ (/\ ret'.op = "handleAuth"
         /\ ret'.dispatch.threw
         /\ DeeplinkAuth_handleAuth \/ CodeAuth_handleAuth)
          => /\ ret'.value \in DOMAIN sessions'
             /\ sessions'[ret'.value].used
             /\ sessions'[ret'.value].userData = ret'.arg
     /\ \A v \in DOMAIN sessions :
          (sessions[v].used /\ sessions[v].userData # Undefined /\ v \notin redeemed) =>
            /\ v \in DOMAIN sessions'
            /\ sessions'[v].used
            /\ sessions'[v].userData = sessions[v].userData
     /\ (/\ ret'.op = "handleAuth"
         /\ ret'.value \in DOMAIN sessions
         /\ sessions[ret'.value].used
         /\ sessions[ret'.value].userData # Undefined
         /\ ret'.value \notin redeemed
         /\ DeeplinkAuth_handleAuth \/ CodeAuth_handleAuth)
          => ret'.result = "false"]_vars

\* the hooks sendResult is configured to invoke: the saveHandler, the onAuth
\* callback and wsServer.emit
EnabledHooks(o) ==
  {h \in {"save", "callback", "websocket"} :
     \/ h = "save" /\ o.saveHandler
     \/ h = "callback" /\ "callback" \in o.transport /\ o.onAuth
     \/ h = "websocket" /\ "websocket" \in o.transport /\ o.wsServer}

\* C20: in every dispatch the saveHandler and every enabled channel is
\* invoked, also when one of them throws.
C20_EveryChannelInvoked ==
  (ret.op \in {"handleAuth", "verify2FA", "WidgetAuth.handleAuth"} /\ ret.dispatch.ran = 1) =>
    \A h \in EnabledHooks(opts) : \E i \in 1..Len(ret.dispatch.invoked) :
      ret.dispatch.invoked[i] = h

\* C21: the result of createSession, updateSession and deleteSession does not
\* depend on persistentStore.save: each call ends with its normal result
\* (the session, true, the deletion flag), also when save rejects or never
\* completes.  The code awaits saveSessions() in all three.
C21_ResultIgnoresSave ==
  ret.op \in {"createSession", "updateSession", "deleteSession"} =>
    ret.result \in {"session", "true", "false"}

\* the sessions other than `id` are the same in both collections
SameElsewhere(id, m1, m2) ==
  /\ (DOMAIN m1) \ {id} = (DOMAIN m2) \ {id}
  /\ \A other \in (DOMAIN m1) \ {id} : m1[other] = m2[other]

\* C22: when persistentStore.save rejects during createSession,
\* updateSession, deleteSession, clearUserSessions, getSession or the sweep,
\* the collection afterwards is what it is after a successful save: the
\* inserted session is stored, the metadata is merged, the deleted sessions
\* are gone, and every other session is as before.
C22_RejectedSaveKeepsMutation ==
  [][(ret'.op \in {"createSession", "updateSession", "deleteSession",
                   "clearUserSessions", "getSession", "cleanExpiredSessions"}
      /\ ret'.save = "rejects") =>
       /\ (ret'.op = "createSession" /\ createSession) =>
            /\ ret'.value \in DOMAIN smSessions'
            /\ smSessions'[ret'.value].createdAt = now
            /\ smSessions'[ret'.value].lastActivity = now
            /\ \E metadata \in CreateMetadata :
                 smSessions'[ret'.value].metadata = metadata
            /\ SameElsewhere(ret'.value, smSessions, smSessions')
       /\ (ret'.op = "updateSession" /\ updateSession) =>
            /\ ret'.value \in DOMAIN smSessions'
            /\ smSessions'[ret'.value].lastActivity = now
            /\ \E metadata \in UpdateMetadata :
                 smSessions'[ret'.value].metadata =
                   Spread(smSessions[ret'.value].metadata, metadata)
            /\ SameElsewhere(ret'.value, smSessions, smSessions')
       /\ (ret'.op = "deleteSession" /\ deleteSession) =>
            /\ ret'.value \notin DOMAIN smSessions'
            /\ SameElsewhere(ret'.value, smSessions, smSessions')
       /\ (ret'.op = "getSession" /\ getSession) =>
            /\ ret'.value \notin DOMAIN smSessions'
            /\ SameElsewhere(ret'.value, smSessions, smSessions')
       /\ (ret'.op = "clearUserSessions" /\ clearUserSessions) =>
            /\ DOMAIN smSessions' =
                 {id \in DOMAIN smSessions : smSessions[id].userData # ret'.value}
            /\ \A id \in DOMAIN smSessions' : smSessions'[id] = smSessions[id]
       /\ (ret'.op = "cleanExpiredSessions" /\ cleanExpiredSessions) =>
            /\ DOMAIN smSessions' =
                 {id \in DOMAIN smSessions :
                    ~(now - smSessions[id].lastActivity
                        > SessionManager_lifetime(smLifetime))}
            /\ DOMAIN smSessions' # DOMAIN smSessions
            /\ \A id \in DOMAIN smSessions' : smSessions'[id] = smSessions[id]
  ]_vars

\* a createSession whose save was rejected, with its session in the collection
C22_Witness ==
  /\ ret.op = "createSession"
  /\ ret.save = "rejects"
  /\ ret.result = "rejected"
  /\ ret.value \in DOMAIN smSessions
  /\ smSessions[ret.value].createdAt = now

\* C23: every getSession call that returns a session sets the session's
\* lastActivity to the current time and calls persistentStore.save.  The
\* returning branch of the code writes lastActivity and makes no save.
C23_GetRefreshesAndSaves ==
  [][(ret'.op = "getSession" /\ ret'.result = "session" /\ getSession) =>
       /\ smSessions'[ret'.value].lastActivity = now
       /\ ret'.saves = 1
  ]_vars

\* C24: for every session id the stored lastActivity never decreases, over
\* every operation of the manager and the initial load, and is never smaller
\* than createdAt.  The load replaces the collection, and with it a session
\* created before it resolved.
C24_LastActivityMonotone ==
  [][\A id \in (DOMAIN smSessions) \cap (DOMAIN smSessions') :
       /\ smSessions'[id].lastActivity >= smSessions[id].lastActivity
       /\ smSessions'[id].lastActivity >= smSessions'[id].createdAt
  ]_vars

C26_LoadFailureIsHarmless ==
  [][/\ (load = "pending" /\ load' = "rejected") =>
          (smSessions' = smSessions /\ ret' = ret /\ gone' = gone)
     /\ (load = "rejected" /\ ret'.op = "createSession" /\ createSession) =>
          /\ ret'.value \in DOMAIN smSessions'
          /\ smSessions'[ret'.value].lastActivity = now
     /\ (load = "rejected" /\ ret'.op = "getSession" /\ getSession) =>
          (ret'.result = "session") =
             /\ ret'.value \in DOMAIN smSessions
             /\ ~(now - smSessions[ret'.value].lastActivity
                    > SessionManager_lifetime(smLifetime))
     /\ (load = "rejected" /\ ret'.op = "updateSession" /\ updateSession
           /\ ret'.value \in DOMAIN smSessions) =>
          /\ ret'.value \in DOMAIN smSessions'
          /\ \E metadata \in UpdateMetadata :
               smSessions'[ret'.value].metadata =
                 Spread(smSessions[ret'.value].metadata, metadata)
     /\ (load = "rejected" /\ ret'.op = "deleteSession" /\ deleteSession) =>
          ret'.value \notin DOMAIN smSessions'
  ]_vars

\* after the load was rejected, getSession returns a session of the manager
C26_Witness ==
  /\ load = "rejected"
  /\ ret.op = "getSession"
  /\ ret.result = "session"
  /\ ret.value \in DOMAIN smSessions
  /\ snapshot # EmptyMap

\* the number of times the hook h was invoked in the dispatch d
Invocations(d, h) == Cardinality({i \in 1..Len(d.invoked) : d.invoked[i] = h})

\* C27: with 'rest' in the transport set and restEndpoint configured, each
\* successful handleAuth of DeeplinkAuth and of CodeAuth issues exactly one
\* HTTP POST to restEndpoint.  The 'rest' branch of their sendResult is empty.
C27_RestPostsOnce ==
  (ret.op = "handleAuth" /\ ret.dispatch.ran = 1
     /\ "rest" \in opts.transport /\ opts.restEndpoint) =>
    Invocations(ret.dispatch, "rest") = 1

\* C28: in every dispatch of every store the saveHandler, when configured,
\* is invoked whatever the transport set holds (also when it is empty),
\* the onAuth callback is invoked only if 'callback' is in the transport set
\* and wsServer.emit only if 'websocket' is in it.
C28_SaveAlwaysChannelsIfEnabled ==
  (ret.op \in {"handleAuth", "verify2FA", "WidgetAuth.handleAuth"}
     /\ ret.dispatch.ran = 1) =>
    /\ opts.saveHandler => Invocations(ret.dispatch, "save") = 1
    /\ Invocations(ret.dispatch, "callback") > 0 => "callback" \in opts.transport
    /\ Invocations(ret.dispatch, "websocket") > 0 => "websocket" \in opts.transport

\* a dispatch with an empty transport set: the saveHandler is invoked, and
\* the onAuth handler and the wsServer, both supplied, are not
C28_Witness ==
  /\ ret.op \in {"handleAuth", "verify2FA", "WidgetAuth.handleAuth"}
  /\ ret.dispatch.ran = 1
  /\ opts.transport = {}
  /\ opts.saveHandler /\ opts.onAuth /\ opts.wsServer
  /\ ret.dispatch.invoked = <<"save">>

\* C29: no instance exists without credentials: constructing an object with
\* neither botSettings nor botToken fails, so no handleAuth call ever runs
\* on such an instance, and none fails for want of the token.  The
\* constructor of WidgetAuth tests nothing.
C29_NoInstanceWithoutCredentials ==
  (ret.op = "WidgetAuth.handleAuth") =>
    (wOpts.botToken # Undefined /\ ret.result # "threw")

\* C30: every validation failure of WidgetAuth.handleAuth is the return
\* value false, without exception and without dispatch: for a payload that
\* is not an object, one that lacks id, first_name, auth_date or hash, a
\* stale one, and, where signatures are validated, one whose hash is not the
\* digest of its fields under the token of the instance.  Without a token
\* the signature test throws.
C30_FailureIsFalse ==
  (/\ ret.op = "WidgetAuth.handleAuth"
   /\ \/ ~ret.data.object
      \/ \E k \in {"id", "first_name", "auth_date", "hash"} :
           k \notin DOMAIN ret.data.fields
      \/ /\ AllDigits(ToText(ret.data.fields["auth_date"]))
         /\ (ret.clock \div 1000)
              - ParseDigits(ToText(ret.data.fields["auth_date"]), 1, 0) > 86400
      \/ /\ wOpts.validateSignature # "false"
         /\ LET f == ret.data.fields
            IN  f["hash"] # Hmac(Sha256(wOpts.botToken),
                                 Lines(f, {k \in (DOMAIN f) \ {"hash"} : Truthy(f[k])})))
    => (ret.result = "false" /\ ret.dispatch.ran = 0)

\* the digits d are decimal digits
DecimalDigits(d) == Len(d) > 0 /\ \A i \in 1..Len(d) : d[i] \in 0..9

\* the number the decimal digits d write
RECURSIVE DecimalValue(_)
DecimalValue(d) ==
  IF Len(d) = 0 THEN 0 ELSE 10 * DecimalValue(SubSeq(d, 1, Len(d) - 1)) + d[Len(d)]

\* C31: for every length L with 1 <= L <= 8 and every value of the random
\* source, TwoFAAuth.generateCode(L) is an integer in [10^(L-1), 10^L - 1],
\* and every code of CodeAuth.generateCode is an integer in
\* [100000, 999999].
C31_CodeInRange ==
  /\ (ret.op = "TwoFAAuth.generateCode" /\ ret.value <= 8) =>
       /\ DecimalDigits(ret.result)
       /\ DecimalValue(ret.result) >= Pow10(ret.value - 1)
       /\ DecimalValue(ret.result) <= Pow10(ret.value) - 1
  /\ (ret.op = "CodeAuth.generateCode") =>
       /\ DecimalDigits(ret.result)
       /\ DecimalValue(ret.result) >= 100000
       /\ DecimalValue(ret.result) <= 999999

\* a code of length 8 drawn with the largest value of the random source
C31_Witness ==
  /\ ret.op = "TwoFAAuth.generateCode"
  /\ ret.value = 8
  /\ ret.arg = CodeRandomDen - 1
  /\ DecimalValue(ret.result) > 9 * Pow10(7)

\* C32: the code start2FA returns (the result of generateCode for the
\* configured codeLength) has exactly codeLength characters, each a decimal
\* digit, for every codeLength, lengths above 8 included.  Above 8 the code
\* is made of hexadecimal digits.
C32_CodeIsDecimal ==
  (ret.op = "TwoFAAuth.generateCode") =>
    (Len(ret.result) = ret.value /\ DecimalDigits(ret.result))

\* C33: isVerified(subject) returns the verified flag of the subject's
\* stored challenge, and false when none is stored, whatever the time
\* (also after expiresAt); it changes no challenge and no attempt counter.
C33_IsVerifiedReadsFlag ==
  [][(ret'.op = "isVerified" /\ isVerified) =>
       /\ ret'.result = (IF /\ ret'.value \in DOMAIN tfSessions
                            /\ tfSessions[ret'.value].verified
                         THEN "true" ELSE "false")
       /\ tfSessions' = tfSessions
       /\ attempts' = attempts
       /\ now' = now
  ]_vars

\* isVerified has returned true for a challenge whose expiresAt has passed
C33_Witness ==
  /\ ret.op = "isVerified"
  /\ ret.result = "true"
  /\ ret.value \in DOMAIN tfSessions
  /\ now > tfSessions[ret.value].expiresAt

\* C34: a session that createSession has stored stays retrievable by
\* getSession(id) until it is deleted or expires, under every interleaving
\* with the load the constructor started: a session leaves the collection
\* only in a deleteSession or clearUserSessions call or when its lifetime
\* has passed.  The load, when it resolves, replaces the collection.
C34_CreatedStaysRetrievable ==
  [][\A id \in DOMAIN smSessions :
       id \notin DOMAIN smSessions' =>
         \/ now - smSessions[id].lastActivity > SessionManager_lifetime(smLifetime)
         \/ deleteSession
         \/ clearUserSessions
  ]_vars

\* C35: in handleAuth (DeeplinkAuth, CodeAuth) and verify2FA the write of
\* used (and verified) precedes the delivery: a hook that calls the method
\* again with the same value while the dispatch is running gets false, so
\* no dispatch for the value runs inside the first one.
C35_ReentryRefused ==
  (ret.op \in {"handleAuth", "verify2FA"} /\ ret.dispatch.ran = 1) =>
    ret.dispatch.nested # "true"

\* a hook of a running dispatch has called the method again and got false
C35_Witness ==
  /\ ret.op \in {"handleAuth", "verify2FA"}
  /\ ret.dispatch.ran = 1
  /\ Len(ret.dispatch.invoked) > 0
  /\ ret.dispatch.nested = "false"

\* C36: in an integration constructed with useSessionManager true and an
\* authOptions.onAuth handler, each successful redemption creates exactly
\* one session in the integration's SessionManager, and the user's onAuth
\* handler is invoked only after it.  The spread of authOptions replaces
\* the wrapper that creates the session by the user's handler.
C36_SessionThenOnAuth ==
  (/\ ret.op = "Integration.handleAuth"
   /\ ret.result = "true"
   /\ integration.useSessionManager
   /\ "onAuth" \in DOMAIN integration.authOptions) =>
    /\ Len(ret.events) >= 1
    /\ ret.events[1] = "createSession"
    /\ \A i \in 2..Len(ret.events) : ret.events[i] = "onAuth"
    /\ smSessions # EmptyMap

\* C37: a DeeplinkAuth.handleAuth or CodeAuth.handleAuth call on an unused
\* artifact returns true, however long ago the artifact was generated
\* (createdAt is not consulted), and the passage of time alone changes no
\* artifact.
C37_RedeemableAtAnyAge ==
  [][/\ (/\ ret'.op = "handleAuth"
         /\ ret'.value \in DOMAIN sessions
         /\ ~sessions[ret'.value].used
         /\ (DeeplinkAuth_handleAuth \/ CodeAuth_handleAuth))
          => ret'.result = "true"
     /\ now' # now => sessions' = sessions]_vars

\* a handleAuth call on an unused artifact generated at an earlier time has
\* returned true
C37_AgedRedeemed ==
  /\ ret.op = "handleAuth"
  /\ ret.result = "true"
  /\ ret.value \in DOMAIN sessions
  /\ sessions[ret.value].createdAt < now

\* C38: every state transition of the core hands one record to the log or
\* audit sink: a redemption (successful or not), the start of a 2FA
\* challenge, a 2FA verification (successful or not), and the creation,
\* access and deletion of a session.
C38_EveryTransitionRecorded ==
  ret.op \in {"handleAuth", "start2FA", "verify2FA",
              "createSession", "getSession", "deleteSession"}
    => Core_logRecords(kind, ret.op) = 1

\* C39: in a TwoFAAuth made by createTelegramAuth with
\* twoFactor.verificationTimeout = T seconds (300 when it is not given), a
\* verify2FA call with the code of the challenge, made more than T seconds
\* after start2FA, returns false.
C39_TimeoutIsLifetime ==
  [][(/\ ret'.op = "verify2FA"
      /\ "verificationTimeout" \in DOMAIN tfOpts
      /\ ret'.value \in DOMAIN tfSessions
      /\ ret'.arg = tfSessions[ret'.value].code
      /\ now > tfSessions[ret'.value].createdAt + tfOpts.verificationTimeout * Second
      /\ TwoFAAuth_verify2FA)
       => ret'.result = "false"]_vars

\* the payload of a call, made at time t, is inside the freshness window
InWindow(data, t) ==
  data.object /\ "auth_date" \in DOMAIN data.fields
    => ~WidgetAuth_stale(t \div 1000, ParseInt(data.fields["auth_date"]))

\* C40: WidgetAuth keeps no state between calls.  Every handleAuth call
\* leaves the payload object with the fields and values it had (hash
\* included); a call made again with the payload of the last call, both
\* inside the freshness window, returns what the last call returned, and
\* when it returns true it has dispatched the identity again.
C40_NoStateBetweenCalls ==
  [][/\ ret'.op = "WidgetAuth.handleAuth" => ret'.after = ret'.data
     /\ (/\ ret.op = "WidgetAuth.handleAuth"
         /\ InWindow(ret.data, ret.clock)
         /\ InWindow(ret.data, now)
         /\ WidgetAuth_handleAuth_again)
          => /\ ret'.result = ret.result
             /\ ret'.data = ret.data
             /\ ret'.result = "true" => /\ ret'.dispatch.ran = 1
                                        /\ ret'.dispatch = ret.dispatch]_vars


====
